---- MODULE Spec2Model ----
(***************************************************************************)
(* Model of onnx/defs/function.cc: FunctionExpandHelper (expansion of a    *)
(* call to a function into a destination graph) and                        *)
(* FunctionBuilder::AddInlinedCall (splicing of a graph into a function    *)
(* under construction).                                                    *)
(*                                                                         *)
(* Names are strings and are concatenated as the code concatenates them.   *)
(* Protobuf messages are records, repeated fields are sequences, and the   *)
(* std::unordered_map's are functions whose DOMAIN is the key set.         *)
(*                                                                         *)
(* Input domain: function definitions and graphs respect the format's      *)
(* naming rules (formal input and output names of one function pairwise    *)
(* distinct, node names of one graph pairwise distinct, opset versions     *)
(* positive); the helper itself checks none of this.                       *)
(***************************************************************************)
EXTENDS Integers, Sequences, FiniteSets, TLC

VARIABLES
  g,        \* GraphProto& g: the destination graph's node list
  calls,    \* one entry per FunctionExpandHelper call made so far
  funProto, \* FunctionBuilder::funProto: the node list of the function under construction
  splices   \* the arguments of each AddInlinedCall made so far

vars == <<g, calls, funProto, splices>>

(***************************************************************************)
(* Bounds                                                                  *)
(***************************************************************************)
MaxCalls == 2
MaxSplices == 2

(***************************************************************************)
(* Maps                                                                    *)
(***************************************************************************)
EmptyMap == [x \in {} |-> ""]

\* m[k] = v of std::unordered_map: insert or overwrite
Put(m, k, v) == [x \in (DOMAIN m) \cup {k} |-> IF x = k THEN v ELSE m[x]]

(***************************************************************************)
(* AttributeProto                                                          *)
(***************************************************************************)
Literal(n, v) ==
  [name |-> n, has_ref_attr_name |-> FALSE, ref_attr_name |-> "", value |-> v]

RefAttr(n, target) ==
  [name |-> n, has_ref_attr_name |-> TRUE, ref_attr_name |-> target, value |-> ""]

\* a default-constructed AttributeProto: no name, no value
EmptyAttr == Literal("", "")

(***************************************************************************)
(* The function definitions (FunctionProto) the model expands              *)
(***************************************************************************)
BodyNode(op, ins, outs, attrs) ==
  [op_type |-> op, domain |-> "", input |-> ins, output |-> outs, attribute |-> attrs]

Import(d, v) == [domain |-> d, version |-> v]

\* F(X, Y) -> (Z, W); internal values T and bT; registered schema at ("", 14)
FuncF ==
  [name |-> "F", domain |-> "",
   input |-> <<"X", "Y">>, output |-> <<"Z", "W">>,
   node |-> << BodyNode("Add", <<"X", "Y">>, <<"T">>, <<RefAttr("axis", "alpha")>>),
               BodyNode("Mul", <<"T", "Y">>, <<"bT">>,
                        <<Literal("k", "k0"), RefAttr("mode", "beta"), RefAttr("eps", "gamma")>>),
               BodyNode("Relu", <<"bT">>, <<"Z">>, <<>>),
               BodyNode("Neg", <<"Z">>, <<"W">>, <<RefAttr("alpha", "alpha")>>) >>,
   opset_import |-> <<Import("d", 2), Import("", 14)>>]

\* G(X) -> (Z) in domain "d"; registered schema at ("d", 2)
FuncG ==
  [name |-> "G", domain |-> "d",
   input |-> <<"X">>, output |-> <<"Z">>,
   node |-> << BodyNode("Exp", <<"X">>, <<"T">>, <<RefAttr("axis", "alpha"), RefAttr("eps", "gamma")>>),
               BodyNode("Log", <<"T">>, <<"Z">>, <<Literal("k", "k1")>>) >>,
   opset_import |-> <<Import("d", 2), Import("", 14)>>]

\* U(X) -> (Z): a function for which the registry holds no schema
FuncU ==
  [name |-> "U", domain |-> "",
   input |-> <<"X">>, output |-> <<"Z">>,
   node |-> << BodyNode("Abs", <<"X">>, <<"Z">>, <<RefAttr("axis", "alpha")>>) >>,
   opset_import |-> <<Import("", 14)>>]

\* H(X) -> (Z) in domain "d", whose opset imports do not name domain "d"
FuncH ==
  [name |-> "H", domain |-> "d",
   input |-> <<"X">>, output |-> <<"Z">>,
   node |-> << BodyNode("Sin", <<"X">>, <<"T">>, <<>>),
               BodyNode("Cos", <<"T">>, <<"Z">>, <<>>) >>,
   opset_import |-> <<Import("", 14)>>]

(***************************************************************************)
(* The schema registry (OpSchemaRegistry), read-only                       *)
(***************************************************************************)
\* OpSchema::attributes(): attribute name -> Attribute{default_value}
SchemaAttr(dv) == [default_value |-> dv]

SchemaF ==
  [is_null |-> FALSE,
   attributes |-> [a \in {"alpha", "beta"} |->
      IF a = "alpha" THEN SchemaAttr(Literal("alpha", "a0"))
                     ELSE SchemaAttr(EmptyAttr)]]      \* beta: declared, no default

SchemaG ==
  [is_null |-> FALSE,
   attributes |-> [a \in {"alpha"} |-> SchemaAttr(Literal("alpha", "a1"))]]

\* what a lookup returns when nothing is registered: a null pointer
NullSchema == [is_null |-> TRUE, attributes |-> [a \in {} |-> SchemaAttr(EmptyAttr)]]

Registry ==
  [key \in {<<"F", 14, "">>, <<"G", 2, "d">>} |->
      IF key[1] = "F" THEN SchemaF ELSE SchemaG]

\* schema_registry->GetSchema(op_type, domain_version, domain)
GetSchema(op_type, version, domain) ==
  IF <<op_type, version, domain>> \in DOMAIN Registry
    THEN Registry[<<op_type, version, domain>>]
    ELSE NullSchema

\* What `schema->attributes()` can yield through a null schema pointer: the
\* read is undefined, so the map is whatever the memory there holds.
GarbageAttributes ==
  { [a \in {} |-> SchemaAttr(EmptyAttr)],
    [a \in {"alpha"} |-> SchemaAttr(Literal("alpha", "junk"))] }

(***************************************************************************)
(* The call sites (NodeProto) the model expands                            *)
(***************************************************************************)
\* Three node objects alive in the caller's graph at the same time: distinct
\* addresses (as `ss << &node` prints them), distinct names where named.
Sites ==
  { [name |-> "a",  address |-> "0x1", has_name |-> TRUE],
    [name |-> "ab", address |-> "0x2", has_name |-> TRUE],
    [name |-> "",   address |-> "0x3", has_name |-> FALSE] }

\* what a call site passes: the function it names, its actual inputs and
\* outputs, and its attributes
Shape(f, ins, outs, attrs) ==
  [input |-> ins, output |-> outs, attribute |-> attrs, func |-> f]

Alpha == Literal("alpha", "c1")
Beta  == Literal("beta", "c2")
Gamma == Literal("gamma", "c3")

Shapes ==
  { Shape(FuncF, <<"i1", "i2">>, <<"o1", "o2">>, <<>>),
    Shape(FuncF, <<"i1">>, <<"o1">>, <<Alpha>>),
    Shape(FuncF, <<"i1", "i2", "i3">>, <<"o1">>, <<>>),
    Shape(FuncF, <<"i1", "i2">>, <<"", "o2">>, <<Gamma>>),
    Shape(FuncF, <<>>, <<"o1", "", "o3">>, <<>>),
    Shape(FuncF, <<"i1", "i2">>, <<"", "">>, <<Alpha, Beta, Gamma>>),
    Shape(FuncG, <<"i1">>, <<"o1">>, <<>>),
    Shape(FuncG, <<"i1">>, <<"">>, <<Alpha>>),
    Shape(FuncU, <<"i1">>, <<"o1">>, <<>>),
    Shape(FuncU, <<"i1">>, <<"o1", "o2">>, <<>>),
    Shape(FuncH, <<"i1">>, <<"o1">>, <<>>),
    Shape(FuncH, <<"i1", "i2">>, <<"o1">>, <<>>) }

\* the NodeProto of a site calling with a shape: op_type and domain name the
\* function called
CallNode(site, shape) ==
  [name |-> site.name,
   op_type |-> shape.func.name, domain |-> shape.func.domain,
   input |-> shape.input, output |-> shape.output, attribute |-> shape.attribute,
   address |-> site.address, has_name |-> site.has_name]

\* the node_prefix argument: empty, or a prefix the caller made for this
\* node; the first node is always expanded without one. A named node may
\* get one too: line 29 then ignores it.
NodePrefixes(site) ==
  IF site.address = "0x1" THEN {""} ELSE {"", "p" \o site.address}

(***************************************************************************)
(* FunctionExpandHelper, step by step                                      *)
(***************************************************************************)
InteralTensorNameGenerator(node_name, internal_name) ==
  "Func_" \o node_name \o internal_name

\* lines 22-28: the caller's prefix, or the node's address when it is empty
UniqPrefix(node, node_prefix) ==
  IF node_prefix = "" THEN node.address ELSE node_prefix

\* line 29
NodeName(node, func, node_prefix) ==
  IF node.has_name THEN node.name ELSE func.name \o UniqPrefix(node, node_prefix)

\* InputOutOfBounds with the bound off by one (idx + 1 >= func.input_size())
InputOutOfBoundsInclusive(node, func) == Len(node.input) >= Len(func.input)

\* line 34, over the whole loop: some idx < node.input_size() is >= func.input_size()
InputOutOfBounds(node, func) == Len(node.input) > Len(func.input)

\* line 40, over the whole loop
OutputOutOfBounds(node, func) == Len(node.output) > Len(func.output)

\* lines 33-38: the loop from idx on, no index out of bounds
RECURSIVE InputLoop(_, _, _, _)
InputLoop(node, func, idx, m) ==
  IF idx > Len(node.input) THEN m
  ELSE InputLoop(node, func, idx + 1, Put(m, func.input[idx], node.input[idx]))

\* OutputLoop without the `continue` of line 47: an empty actual name is bound
RECURSIVE OutputLoopBindsEmpty(_, _, _, _)
OutputLoopBindsEmpty(node, func, idx, m) ==
  IF idx > Len(node.output) THEN m
  ELSE OutputLoopBindsEmpty(node, func, idx + 1,
                            Put(m, func.output[idx], node.output[idx]))

\* lines 39-50: the loop from idx on, no index out of bounds
RECURSIVE OutputLoop(_, _, _, _)
OutputLoop(node, func, idx, m) ==
  IF idx > Len(node.output) THEN m
  ELSE IF node.output[idx] = ""
    THEN OutputLoop(node, func, idx + 1, m)
    ELSE OutputLoop(node, func, idx + 1, Put(m, func.output[idx], node.output[idx]))

\* lines 52-54
RECURSIVE NodeAttrLoop(_, _, _)
NodeAttrLoop(node, idx, m) ==
  IF idx > Len(node.attribute) THEN m
  ELSE NodeAttrLoop(node, idx + 1, Put(m, node.attribute[idx].name, node.attribute[idx]))

\* DomainVersionLoop without the domain test of line 61
RECURSIVE DomainVersionLoopAnyDomain(_, _, _, _)
DomainVersionLoopAnyDomain(node, func, idx, domain_version) ==
  IF idx > Len(func.opset_import) THEN domain_version
  ELSE DomainVersionLoopAnyDomain(node, func, idx + 1, func.opset_import[idx].version)

\* lines 59-64: -1, or the version of the last import of the node's domain
\* (the versions here are small, so the cast to int of line 62 keeps them)
RECURSIVE DomainVersionLoop(_, _, _, _)
DomainVersionLoop(node, func, idx, domain_version) ==
  IF idx > Len(func.opset_import) THEN domain_version
  ELSE DomainVersionLoop(node, func, idx + 1,
         IF func.opset_import[idx].domain = node.domain
           THEN func.opset_import[idx].version
           ELSE domain_version)

DomainVersion(node, func) == DomainVersionLoop(node, func, 1, -1)

\* AddDefaults without the test of line 76: the schema default overwrites
AddDefaultsOverwrites(attr_map, default_attrs) ==
  [a \in (DOMAIN attr_map) \cup (DOMAIN default_attrs) |->
     IF a \in DOMAIN default_attrs THEN default_attrs[a].default_value ELSE attr_map[a]]

\* lines 73-79: a default for every schema attribute the map does not hold
AddDefaults(attr_map, default_attrs) ==
  [a \in (DOMAIN attr_map) \cup (DOMAIN default_attrs) |->
     IF a \in DOMAIN attr_map THEN attr_map[a] ELSE default_attrs[a].default_value]

\* lines 87-100: one input or output name of a body node
Rename(name, node_name, io_names_map) ==
  IF name \in DOMAIN io_names_map
    THEN io_names_map[name]
    ELSE InteralTensorNameGenerator(node_name, name)

\* NewAttributes adding an empty attribute for a reference it cannot resolve
RECURSIVE NewAttributesKeepsUnresolved(_, _, _)
NewAttributesKeepsUnresolved(attrs, idx, attr_map) ==
  IF idx > Len(attrs) THEN <<>>
  ELSE LET attr == attrs[idx]
           rest == NewAttributesKeepsUnresolved(attrs, idx + 1, attr_map)
       IN IF attr.has_ref_attr_name
            THEN IF attr.ref_attr_name \in DOMAIN attr_map
                   THEN <<[attr_map[attr.ref_attr_name] EXCEPT !.name = attr.name]>> \o rest
                   ELSE <<[EmptyAttr EXCEPT !.name = attr.name]>> \o rest
            ELSE <<attr>> \o rest

\* lines 101-112: the attributes of one body node, from idx on
RECURSIVE NewAttributes(_, _, _)
NewAttributes(attrs, idx, attr_map) ==
  IF idx > Len(attrs) THEN <<>>
  ELSE LET attr == attrs[idx]
           rest == NewAttributes(attrs, idx + 1, attr_map)
       IN IF attr.has_ref_attr_name
            THEN IF attr.ref_attr_name \in DOMAIN attr_map
                   THEN <<[attr_map[attr.ref_attr_name] EXCEPT !.name = attr.name]>> \o rest
                   ELSE rest
            ELSE <<attr>> \o rest

\* lines 82-112: the copy of one body node
NewNode(function_node, node_name, io_names_map, attr_map) ==
  [op_type   |-> function_node.op_type,
   domain    |-> function_node.domain,
   input     |-> [i \in 1..Len(function_node.input) |->
                    Rename(function_node.input[i], node_name, io_names_map)],
   output    |-> [i \in 1..Len(function_node.output) |->
                    Rename(function_node.output[i], node_name, io_names_map)],
   attribute |-> NewAttributes(function_node.attribute, 1, attr_map)]

\* lines 81-113: the nodes added to g
ExpandNodes(func, node_name, io_names_map, attr_map) ==
  [b \in 1..Len(func.node) |-> NewNode(func.node[b], node_name, io_names_map, attr_map)]

\* the names of a body that InteralTensorNameGenerator is applied to
BodyNames(func) ==
  UNION { {func.node[b].input[i] : i \in 1..Len(func.node[b].input)}
          \cup {func.node[b].output[i] : i \in 1..Len(func.node[b].output)}
          : b \in 1..Len(func.node) }

Generated(func, node_name, io_names_map) ==
  { InteralTensorNameGenerator(node_name, n) : n \in BodyNames(func) \ DOMAIN io_names_map }

(***************************************************************************)
(* FunctionExpandHelper as a whole: what one call can end in               *)
(***************************************************************************)
\* Failure with g.add_node() run ahead of the checks: a throw leaves a record
FailureLeavesRecord(kind, bound_inputs, lookup) ==
  [bound_inputs |-> bound_inputs, lookup |-> lookup,
   result |-> kind, nodes |-> <<BodyNode("", <<>>, <<>>, <<>>)>>, generated |-> {}]

\* an end by ONNX_THROW (or by a crash): nothing was added to g
Failure(kind, bound_inputs, lookup) ==
  [bound_inputs |-> bound_inputs, lookup |-> lookup,
   result |-> kind, nodes |-> <<>>, generated |-> {}]

\* lines 73-113, entered with the schema's attribute map
Instantiate(node, func, node_name, io_names_map, default_attrs, key) ==
  LET attr_map == AddDefaults(NodeAttrLoop(node, 1, EmptyMap), default_attrs)
  IN [bound_inputs |-> InputLoop(node, func, 1, EmptyMap),
      lookup       |-> <<key>>,
      result       |-> "ok",
      nodes        |-> ExpandNodes(func, node_name, io_names_map, attr_map),
      generated    |-> Generated(func, node_name, io_names_map)]

\* The set of ends of FunctionExpandHelper(node, func, g, node_prefix). A
\* throw leaves g as it was: every throw precedes line 81. A null schema is
\* dereferenced at line 71: the call crashes there, or goes on with whatever
\* attribute map the read produced.
Outcomes(node, func, node_prefix) ==
  LET node_name      == NodeName(node, func, node_prefix)
      io_names_map   == OutputLoop(node, func, 1, InputLoop(node, func, 1, EmptyMap))
      domain_version == DomainVersion(node, func)
      key            == <<node.op_type, domain_version, node.domain>>
      schema         == GetSchema(node.op_type, domain_version, node.domain)
      bound_inputs   == InputLoop(node, func, 1, EmptyMap)
  IN IF InputOutOfBounds(node, func) THEN {Failure("InputOutOfBounds", EmptyMap, <<>>)}
     ELSE IF OutputOutOfBounds(node, func) THEN {Failure("OutputOutOfBounds", bound_inputs, <<>>)}
     ELSE IF domain_version = -1 THEN {Failure("NoOpsetImport", bound_inputs, <<>>)}
     ELSE IF schema.is_null
       THEN {Failure("crash", bound_inputs, <<key>>)}
            \cup { Instantiate(node, func, node_name, io_names_map, garbage, key)
                   : garbage \in GarbageAttributes }
       ELSE {Instantiate(node, func, node_name, io_names_map, schema.attributes, key)}

(***************************************************************************)
(* State machine of the expansions                                         *)
(***************************************************************************)
Crashed == \E i \in 1..Len(calls) : calls[i].result = "crash"

Init ==
  /\ g = <<>>
  /\ calls = <<>>
  /\ funProto = <<>>
  /\ splices = <<>>

FunctionExpandHelper(node, func, node_prefix) ==
  /\ Len(calls) < MaxCalls
  /\ ~Crashed
  /\ \E o \in Outcomes(node, func, node_prefix) :
       /\ g' = g \o o.nodes
       /\ calls' = Append(calls,
            [node |-> node, func |-> func, node_prefix |-> node_prefix,
             bound_inputs |-> o.bound_inputs, lookup |-> o.lookup,
             result |-> o.result, generated |-> o.generated])
  /\ UNCHANGED <<funProto, splices>>

Next ==
  \E site \in Sites, shape \in Shapes :
    \E node_prefix \in NodePrefixes(site) :
      FunctionExpandHelper(CallNode(site, shape), shape.func, node_prefix)

Spec == Init /\ [][Next]_vars

(***************************************************************************)
(* FunctionBuilder::AddInlinedCall                                         *)
(***************************************************************************)
\* TensorProto: an initializer
Tensor(n, v) == [name |-> n, value |-> v]

\* The graphs (GraphProto) the model splices. input and output hold the
\* names of the declared ValueInfoProto's.
GraphM ==
  [input |-> <<"X">>, output |-> <<"Y">>,
   node |-> << BodyNode("MatMul", <<"X", "W">>, <<"bT">>, <<>>),
               BodyNode("Relu", <<"bT">>, <<"T">>, <<>>),
               BodyNode("Add", <<"T", "V">>, <<"Y">>, <<>>) >>,
   initializer |-> <<Tensor("W", "w0"), Tensor("V", "v0")>>]

\* B is a declared input with a default value (an initializer of its name)
GraphS ==
  [input |-> <<"X", "B">>, output |-> <<"Y", "aB">>,
   node |-> << BodyNode("Sub", <<"X", "B">>, <<"Y">>, <<>>),
               BodyNode("Neg", <<"Y">>, <<"aB">>, <<>>) >>,
   initializer |-> <<Tensor("B", "b0")>>]

Graphs == {GraphM, GraphS}

\* the actual names and the prefixes a caller passes
ActualInputs  == { <<"in0">>, <<"in0", "in1", "t9">> }
ActualOutputs == { <<>>, <<"out0">>, <<"t1", "t2", "t3">> }
Prefixes      == { "a", "ab", "b_" }

\* the formal inputs and outputs of the function under construction
FunInterface == {"in0", "in1", "out0", "abT"}

\* every value name of a graph
GraphNames(graph) ==
  {graph.input[i] : i \in 1..Len(graph.input)}
  \cup {graph.output[i] : i \in 1..Len(graph.output)}
  \cup {graph.initializer[i].name : i \in 1..Len(graph.initializer)}
  \cup BodyNames(graph)

\* inliner::Renamer(prefix, graph): an empty binding scope under the prefix
NewRenamer(prefix, graph) ==
  [prefix |-> prefix, scope |-> EmptyMap, used |-> GraphNames(graph)]

\* Renamer::BindName
BindName(renamer, formal_name, actual_name) ==
  [renamer EXCEPT !.scope = Put(@, formal_name, actual_name)]

\* the first of base, base_1, base_2, ... that is not in use
RECURSIVE UniqueName(_, _, _)
UniqueName(used, base, k) ==
  LET candidate == IF k = 0 THEN base ELSE base \o "_" \o ToString(k)
  IN IF candidate \in used THEN UniqueName(used, base, k + 1) ELSE candidate

\* Renamer::BindToUniqueName: the name minted and the renamer after it
BindToUniqueName(renamer, original_name) ==
  LET unique == UniqueName(renamer.used, renamer.prefix \o original_name, 0)
  IN [name    |-> unique,
      renamer |-> [renamer EXCEPT !.scope = Put(@, original_name, unique),
                                  !.used = @ \cup {unique}]]

\* Renamer::RenameNode on one name: its binding, or the prefixed name
RenameValue(renamer, name) ==
  IF name \in DOMAIN renamer.scope THEN renamer.scope[name] ELSE renamer.prefix \o name

\* Renamer::RenameNode
RenameNode(renamer, node) ==
  [node EXCEPT !.input  = [i \in 1..Len(node.input)  |-> RenameValue(renamer, node.input[i])],
               !.output = [i \in 1..Len(node.output) |-> RenameValue(renamer, node.output[i])]]

\* FunctionBuilder::Const(name, tensor): a Constant record producing name
Const(name, tensor) ==
  [op_type |-> "Constant", domain |-> "", input |-> <<>>, output |-> <<name>>,
   attribute |-> <<Literal("value", tensor.value)>>]

\* BindFormalsLoop with `++input_it` left out: every formal gets the first actual
RECURSIVE BindFormalsLoopNoAdvance(_, _, _, _)
BindFormalsLoopNoAdvance(formals, actuals, idx, renamer) ==
  IF idx > Len(formals) THEN renamer
  ELSE IF Len(actuals) >= 1
    THEN BindFormalsLoopNoAdvance(formals, actuals, idx + 1,
                                  BindName(renamer, formals[idx], actuals[1]))
    ELSE BindFormalsLoopNoAdvance(formals, actuals, idx + 1, renamer)

\* lines 181-187 and 190-196: formal idx is bound while the actuals last
RECURSIVE BindFormalsLoop(_, _, _, _)
BindFormalsLoop(formals, actuals, idx, renamer) ==
  IF idx > Len(formals) THEN renamer
  ELSE IF idx <= Len(actuals)
    THEN BindFormalsLoop(formals, actuals, idx + 1,
                         BindName(renamer, formals[idx], actuals[idx]))
    ELSE BindFormalsLoop(formals, actuals, idx + 1, renamer)

\* InitializerLoop passing the initializer's own name to Const
RECURSIVE InitializerLoopOwnName(_, _, _, _)
InitializerLoopOwnName(graph, idx, renamer, consts) ==
  IF idx > Len(graph.initializer) THEN [renamer |-> renamer, consts |-> consts]
  ELSE LET bound == BindToUniqueName(renamer, graph.initializer[idx].name)
       IN InitializerLoopOwnName(graph, idx + 1, bound.renamer,
            Append(consts, Const(graph.initializer[idx].name, graph.initializer[idx])))

\* lines 199-202: the renamer and the Constant records after the loop
RECURSIVE InitializerLoop(_, _, _, _)
InitializerLoop(graph, idx, renamer, consts) ==
  IF idx > Len(graph.initializer) THEN [renamer |-> renamer, consts |-> consts]
  ELSE LET bound == BindToUniqueName(renamer, graph.initializer[idx].name)
       IN InitializerLoop(graph, idx + 1, bound.renamer,
            Append(consts, Const(bound.name, graph.initializer[idx])))

\* lines 205-214: the renamed copies of the graph's nodes
InlinedNodes(graph, renamer) ==
  [b \in 1..Len(graph.node) |-> RenameNode(renamer, graph.node[b])]

AddInlinedCall(outputs, graph, inputs, prefix) ==
  /\ Len(splices) < MaxSplices
  /\ LET bound_in  == BindFormalsLoop(graph.input, inputs, 1, NewRenamer(prefix, graph))
         bound_out == BindFormalsLoop(graph.output, outputs, 1, bound_in)
         init      == InitializerLoop(graph, 1, bound_out, <<>>)
     IN funProto' = funProto \o init.consts \o InlinedNodes(graph, init.renamer)
  /\ splices' = Append(splices,
       [graph |-> graph, prefix |-> prefix, outputs |-> outputs, inputs |-> inputs])
  /\ UNCHANGED <<g, calls>>

NextInline ==
  \E outputs \in ActualOutputs, graph \in Graphs, inputs \in ActualInputs, prefix \in Prefixes :
    AddInlinedCall(outputs, graph, inputs, prefix)

SpecInline == Init /\ [][NextInline]_vars

(***************************************************************************)
(* Properties of FunctionExpandHelper                                      *)
(***************************************************************************)
\* where the records of call i start in g: after those of the earlier calls
\* that completed
RECURSIVE SegStart(_)
SegStart(i) ==
  IF i = 1 THEN 1
  ELSE SegStart(i - 1)
       + (IF calls[i - 1].result = "ok" THEN Len(calls[i - 1].func.node) ELSE 0)

\* the record in g instantiated by call i from body record b
Inst(i, b) == g[SegStart(i) + b - 1]

Done(i) == calls[i].result = "ok"

\* the resolved name of a call site, as section 4.2 of the design states it
ResolvedName(c) ==
  IF c.node.has_name THEN c.node.name
  ELSE IF c.node_prefix = "" THEN c.func.name \o c.node.address
  ELSE c.func.name \o c.node_prefix

HasAttribute(rec, name) ==
  \E q \in 1..Len(rec.attribute) : rec.attribute[q].name = name

SuppliedAttributes(c) == {c.node.attribute[q].name : q \in 1..Len(c.node.attribute)}

MatchingImports(c) ==
  {q \in 1..Len(c.func.opset_import) : c.func.opset_import[q].domain = c.node.domain}

SchemaRegistered(c) == Len(c.lookup) = 1 /\ c.lookup[1] \in DOMAIN Registry

\* C1: two distinct call sites expanded into the same graph generate
\* disjoint sets of internal names.
C1_GeneratedNamesDisjoint ==
  \A i, j \in 1..Len(calls) :
    (i < j /\ Done(i) /\ Done(j) /\ calls[i].node.address # calls[j].node.address)
      => calls[i].generated \cap calls[j].generated = {}

\* C2: a call site with k inputs on a function with n formal inputs: k <= n
\* binds formal_input[i] -> actual_input[i] for each i < k and nothing else
\* (every completed record reads the actual where the body read the formal);
\* k > n fails with the out-of-bounds error.
C2_InputBinding ==
  \A c \in 1..Len(calls) :
    LET k == Len(calls[c].node.input)
        n == Len(calls[c].func.input)
        m == calls[c].bound_inputs
    IN IF k <= n
         THEN /\ calls[c].result # "InputOutOfBounds"
              /\ Cardinality(DOMAIN m) = k
              /\ \A i \in 1..k : /\ calls[c].func.input[i] \in DOMAIN m
                                 /\ m[calls[c].func.input[i]] = calls[c].node.input[i]
              /\ Done(c) =>
                   \A i \in 1..k, b \in 1..Len(calls[c].func.node) :
                     \A p \in 1..Len(calls[c].func.node[b].input) :
                       calls[c].func.node[b].input[p] = calls[c].func.input[i]
                         => Inst(c, b).input[p] = calls[c].node.input[i]
         ELSE calls[c].result = "InputOutOfBounds"

C2_Witness ==
  /\ \E c \in 1..Len(calls) :
       Done(c) /\ Len(calls[c].node.input) = 2 /\ Len(calls[c].func.input) = 2
  /\ \E c \in 1..Len(calls) :
       Len(calls[c].node.input) > Len(calls[c].func.input)

\* C3: an empty actual output name at index i leaves formal output i
\* unbound: every occurrence of it in the instantiated body is the generated
\* internal name, never the empty string and never dropped.
C3_EmptyOutputIsInternal ==
  \A c \in 1..Len(calls) :
    Done(c) =>
      /\ \A b \in 1..Len(calls[c].func.node) :
           /\ Len(Inst(c, b).input) = Len(calls[c].func.node[b].input)
           /\ Len(Inst(c, b).output) = Len(calls[c].func.node[b].output)
      /\ \A i \in 1..Len(calls[c].node.output) :
           calls[c].node.output[i] = "" =>
             LET formal   == calls[c].func.output[i]
                 internal == "Func_" \o ResolvedName(calls[c]) \o formal
             IN \A b \in 1..Len(calls[c].func.node) :
                  /\ \A p \in 1..Len(calls[c].func.node[b].input) :
                       calls[c].func.node[b].input[p] = formal
                         => Inst(c, b).input[p] = internal
                  /\ \A p \in 1..Len(calls[c].func.node[b].output) :
                       calls[c].func.node[b].output[p] = formal
                         => Inst(c, b).output[p] = internal

C3_Witness ==
  \E c \in 1..Len(calls) :
    /\ Done(c)
    /\ calls[c].node.output = <<"", "o2">>
    /\ Inst(c, 3).output = <<"Func_" \o ResolvedName(calls[c]) \o "Z">>
    /\ Inst(c, 4).input = <<"Func_" \o ResolvedName(calls[c]) \o "Z">>

SuppliedValue(c, name) ==
  LET qs == {q \in 1..Len(c.node.attribute) : c.node.attribute[q].name = name}
  IN c.node.attribute[CHOOSE q \in qs : \A r \in qs : r <= q].value

\* C5: a body attribute referencing an attribute the call site does not
\* supply and the resolved schema declares with a default is instantiated as
\* a literal with the body attribute's name and the schema default's value;
\* when the call site supplies it, the call site's value is used.
C5_SchemaDefaultFillsReference ==
  \A c \in 1..Len(calls) :
    (Done(c) /\ SchemaRegistered(calls[c])) =>
      \A b \in 1..Len(calls[c].func.node) :
        \A q \in 1..Len(calls[c].func.node[b].attribute) :
          LET attr     == calls[c].func.node[b].attribute[q]
              target   == attr.ref_attr_name
              declared == Registry[calls[c].lookup[1]].attributes
              expected ==
                IF target \in SuppliedAttributes(calls[c])
                  THEN SuppliedValue(calls[c], target)
                  ELSE declared[target].default_value.value
          IN ( /\ attr.has_ref_attr_name
               /\ \/ target \in SuppliedAttributes(calls[c])
                  \/ /\ target \in DOMAIN declared
                     /\ declared[target].default_value # EmptyAttr )
               => /\ Cardinality({r \in 1..Len(Inst(c, b).attribute) :
                                    Inst(c, b).attribute[r].name = attr.name}) = 1
                  /\ \A r \in 1..Len(Inst(c, b).attribute) :
                       Inst(c, b).attribute[r].name = attr.name
                         => /\ Inst(c, b).attribute[r].value = expected
                            /\ ~Inst(c, b).attribute[r].has_ref_attr_name

C5_Witness ==
  /\ \E c \in 1..Len(calls) :
       /\ Done(c) /\ calls[c].func.name = "F" /\ calls[c].node.attribute = <<>>
       /\ Inst(c, 1).attribute = <<Literal("axis", "a0")>>
  /\ \E c \in 1..Len(calls) :
       /\ Done(c) /\ calls[c].func.name = "F" /\ calls[c].node.attribute = <<Alpha>>
       /\ Inst(c, 1).attribute = <<Literal("axis", "c1")>>

C7_MissingSchemaIsAnError ==
  \A c \in 1..Len(calls) :
    (Len(calls[c].lookup) = 1 /\ calls[c].lookup[1] \notin DOMAIN Registry)
      => calls[c].result = "SchemaNotFound"

\* C8: a call either completes, and g gains exactly one record per body
\* record, in body order, or fails, and g gains nothing.
C8_CompleteOrUnchanged ==
  /\ Len(g) = SegStart(Len(calls) + 1) - 1
  /\ \A c \in 1..Len(calls) :
       Done(c) =>
         \A b \in 1..Len(calls[c].func.node) :
           /\ Inst(c, b).op_type = calls[c].func.node[b].op_type
           /\ Len(Inst(c, b).input) = Len(calls[c].func.node[b].input)
           /\ Len(Inst(c, b).output) = Len(calls[c].func.node[b].output)

C8_Witness ==
  /\ Len(calls) = 2
  /\ calls[1].result = "ok" /\ calls[1].func.name = "F"
  /\ calls[2].result = "OutputOutOfBounds"
  /\ Len(g) = 4

(***************************************************************************)
(* Properties of AddInlinedCall                                            *)
(***************************************************************************)
SpliceLen(i) == Len(splices[i].graph.initializer) + Len(splices[i].graph.node)

\* where the records of splice i start in funProto
RECURSIVE SpliceStart(_)
SpliceStart(i) == IF i = 1 THEN 1 ELSE SpliceStart(i - 1) + SpliceLen(i - 1)

\* the Constant record of initializer q and the copy of node b in splice i
ConstRec(i, q) == funProto[SpliceStart(i) + q - 1]
NodeRec(i, b)  == funProto[SpliceStart(i) + Len(splices[i].graph.initializer) + b - 1]

StartsWith(str, prefix) ==
  Len(prefix) <= Len(str) /\ SubSeq(str, 1, Len(prefix)) = prefix

\* every value name of the records splice i emitted
EmittedNames(i) ==
  UNION { {funProto[r].input[p] : p \in 1..Len(funProto[r].input)}
          \cup {funProto[r].output[p] : p \in 1..Len(funProto[r].output)}
          : r \in SpliceStart(i)..(SpliceStart(i) + SpliceLen(i) - 1) }

IsInitializer(graph, name) ==
  \E q \in 1..Len(graph.initializer) : graph.initializer[q].name = name

\* the declared name has an actual name of the caller at its position
CallerBound(s, name) ==
  \/ \E q \in 1..Len(s.graph.input) : s.graph.input[q] = name /\ q <= Len(s.inputs)
  \/ \E q \in 1..Len(s.graph.output) : s.graph.output[q] = name /\ q <= Len(s.outputs)

\* the names splice i emitted that the caller did not supply: the names of
\* its Constant records and the names standing for values of the graph that
\* are initializers or have no actual name
MintedNames(i) ==
  LET s == splices[i]
      minted(name) == IsInitializer(s.graph, name) \/ ~CallerBound(s, name)
  IN UNION { {ConstRec(i, q).output[p] : p \in 1..Len(ConstRec(i, q).output)}
             : q \in 1..Len(s.graph.initializer) }
     \cup UNION { {NodeRec(i, b).input[p] :
                     p \in {x \in 1..Len(s.graph.node[b].input) : minted(s.graph.node[b].input[x])}}
                  \cup {NodeRec(i, b).output[p] :
                     p \in {x \in 1..Len(s.graph.node[b].output) : minted(s.graph.node[b].output[x])}}
                  : b \in 1..Len(s.graph.node) }

\* each initializer of the graph is one Constant record of splice i, named
\* with the splice's prefix
InitializersHoisted(i) ==
  LET s == splices[i]
  IN /\ \A q \in 1..Len(s.graph.initializer) :
          /\ ConstRec(i, q).op_type = "Constant"
          /\ ConstRec(i, q).attribute = <<Literal("value", s.graph.initializer[q].value)>>
          /\ Len(ConstRec(i, q).output) = 1
          /\ StartsWith(ConstRec(i, q).output[1], s.prefix)
     /\ Cardinality({r \in SpliceStart(i)..(SpliceStart(i) + SpliceLen(i) - 1) :
                       funProto[r].op_type = "Constant"}) = Len(s.graph.initializer)

\* C9 as stated: two splices of the same graph under two different prefixes
\* emit disjoint sets of names, none of them a name of the function's formal
\* interface, and each initializer is one Constant record per splice named
\* with the splice's prefix.
C9_SplicesNameDisjoint ==
  \A i, j \in 1..Len(splices) :
    (i < j /\ splices[i].graph = splices[j].graph /\ splices[i].prefix # splices[j].prefix)
      => /\ EmittedNames(i) \cap EmittedNames(j) = {}
         /\ EmittedNames(i) \cap FunInterface = {}
         /\ EmittedNames(j) \cap FunInterface = {}
         /\ InitializersHoisted(i) /\ InitializersHoisted(j)

\* C9 as amended: every name a splice emits that is not an actual name of
\* the caller begins with the splice's prefix; so two splices of the same
\* graph whose prefixes are not a prefix of one another share no such name,
\* and such a name is a formal-interface name only if that name begins with
\* the prefix; each initializer is one Constant record per splice named with
\* the splice's prefix.
C9_MintedNamesCarryPrefix ==
  /\ \A i \in 1..Len(splices) :
       /\ \A n \in MintedNames(i) : StartsWith(n, splices[i].prefix)
       /\ \A n \in FunInterface :
            ~StartsWith(n, splices[i].prefix) => n \notin MintedNames(i)
       /\ InitializersHoisted(i)
  /\ \A i, j \in 1..Len(splices) :
       ( /\ i < j /\ splices[i].graph = splices[j].graph
         /\ ~StartsWith(splices[i].prefix, splices[j].prefix)
         /\ ~StartsWith(splices[j].prefix, splices[i].prefix) )
         => MintedNames(i) \cap MintedNames(j) = {}

C9_Witness ==
  /\ Len(splices) = 2
  /\ splices[1].graph = GraphM /\ splices[2].graph = GraphM
  /\ splices[1].prefix = "a" /\ splices[2].prefix = "b_"
  /\ splices[1].inputs = <<"in0">> /\ splices[2].inputs = <<"in0">>
  /\ {"aW", "aV", "abT", "aT"} \subseteq MintedNames(1)
  /\ {"b_W", "b_V", "b_bT", "b_T"} \subseteq MintedNames(2)

====
